---------------------------- MODULE Spec2Model ----------------------------
(***************************************************************************)
(* Persistence layer of skizze: the dirty-aware LRU page cache (package    *)
(* smartfile, Cache), the random-access File built on it, the storage      *)
(* manager's SaveData path and the SketchProxy that batches mutations.     *)
(*                                                                         *)
(* Three specifications share the variables:                               *)
(*   SpecCache  the Cache driven directly through Add/get/remove/clear,    *)
(*   Spec       one File driven through Read/Write/Flush/Clear/Purge,      *)
(*   SpecProxy  one SketchProxy with worker goroutines and its autosave    *)
(*              goroutine on top of the File.                              *)
(***************************************************************************)
EXTENDS Integers, Sequences, FiniteSets, TLC

(***************************************************************************)
(* Bounds of the model.                                                    *)
(***************************************************************************)
MaxCap == 2
\* largest File capacity / Cache.MaxEntries explored

MaxSteps == 4
\* a File is driven through at most MaxSteps operations

MaxCalls == 3
\* a SketchProxy receives at most MaxCalls Add/Remove calls

SaveThresholdOps == 3
\* config.GetConfig().SaveThresholdOps, a positive configuration value

FileCacheSize == 100000
\* the capacity the storage manager opens every File with

\* offsets a File is read and written at
Offsets == {0, 1, 2}

\* keys of a Cache on its own: one more than the largest capacity
Keys == 0..MaxCap

\* capacities a File is opened with
Sizes == {1, 2, 3}

\* buffer lengths
Lens == {1, 2}

\* written bytes; 0 is a hole in the file or an untouched buffer cell
Bytes == {1, 2}

\* buffers written: n copies of one byte
Data == {[i \in 1..n |-> b] : n \in Lens, b \in Bytes}

\* one-byte pages, for a Cache on its own
Pages == {<<b>> : b \in Bytes}

Max(a, b) == IF a >= b THEN a ELSE b

Min(a, b) == IF a <= b THEN a ELSE b

Zeros(n) == [i \in 1..n |-> 0]

VARIABLES
    disk,   \* bytes of the OS file behind the File (index 1 is offset 0)
    fq,     \* the File: [closed, queue: [MaxEntries, ll], size, ops]
    cb,     \* history: OnEvicted invocations of the last operation, in order
    last,   \* history: the last operation and what it returned
    pre,    \* history: fq.queue.ll as it was before the last operation
    want,   \* history: offset -> bytes of the last Write there (<<>>: none)
    irregular,  \* history: the operations so far were not only Writes and
            \*          Flushes, or a Write overlapped another written region
            \*          or changed the length written at its offset
    steps,  \* history: number of File operations so far
    nw,     \* history: number of Writes since the File was opened or last
            \*          cleared or purged
    mgr,    \* the storage manager: [held, exists, inst, first]
    sp,     \* the SketchProxy: [ops, dirty, sketch, adds, remove]
    lock,   \* sp.lock: 0 when free, else the goroutine holding it
    pc,     \* goroutine -> the statement it executes next
    loc,    \* goroutine -> its locals
    saved,  \* the metadata record last handed to SaveInfo
    hist    \* history of the proxy's calls

fvars == <<disk, fq, cb, last, pre, want, irregular, steps, nw>>

mvars == <<mgr>>

pvars == <<sp, lock, pc, loc, saved, hist>>

vars == <<fvars, pvars, mvars>>

\* goroutines: 0 is the proxy's autosave goroutine, the others call Add,
\* Remove and Count
Workers == {1, 2}

Procs == {0} \cup Workers

\* number of values passed to one Add/Remove
Counts == {1, 2}

NoLocals == [op |-> "none", n |-> 0, force |-> FALSE, o |-> 0, ser |-> <<>>]

NoProxy ==
    /\ sp = [ops |-> 0, dirty |-> FALSE, sketch |-> 0, adds |-> 0, remove |-> 0]
    /\ lock = 0
    /\ pc = [p \in Procs |-> "none"]
    /\ loc = [p \in Procs |-> NoLocals]
    /\ saved = <<>>
    /\ hist = [started |-> 0, calls |-> 0, forced |-> FALSE, wake |-> 0, torn |-> FALSE]

\* a storage manager that resolved nothing yet: no registry entry (held), no
\* backing file on the medium (exists); inst numbers the File instances
\* opened so far, first is the instance of the first access (0: none)
NoManager == [held |-> FALSE, exists |-> FALSE, inst |-> 0, first |-> 0]

(***************************************************************************)
(* container/list as the Cache uses it: ll[1] is Front (most recent),      *)
(* ll[Len(ll)] is Back (oldest).  The map c.cache is the index of a key    *)
(* in ll: Add, removeElement and clear update both together.               *)
(***************************************************************************)
item(bytes, dirty) == [bytes |-> bytes, dirty |-> dirty]

entry(key, value) == [key |-> key, value |-> value]

Lookup(ll, key) ==
    IF \E i \in 1..Len(ll) : ll[i].key = key
    THEN CHOOSE i \in 1..Len(ll) : ll[i].key = key
    ELSE 0

RemoveAt(ll, i) == SubSeq(ll, 1, i - 1) \o SubSeq(ll, i + 1, Len(ll))

MoveToFront(ll, i) == <<ll[i]>> \o RemoveAt(ll, i)

NewLRU(maxEntries) == [MaxEntries |-> maxEntries, ll |-> <<>>]

\* removeElement that forgets the callback
removeElement_NoCallback(ll, i) == [ll |-> RemoveAt(ll, i), ev |-> <<>>]

\* removeElement: unlink the element, delete its key, call OnEvicted.
\* The result carries the callback invocation next to the new list.
removeElement(ll, i) ==
    [ll |-> RemoveAt(ll, i), ev |-> <<[key |-> ll[i].key, bytes |-> ll[i].value.bytes]>>]

\* The loop of removeOldest: ele is stepped to ele.Prev() before it is
\* tested, so the scan starts at the element before Back and ends at Front.
RECURSIVE ScanPrev(_, _)
ScanPrev(ll, i) ==
    IF i = 0 THEN 0
    ELSE IF ~ll[i].value.dirty THEN i
    ELSE ScanPrev(ll, i - 1)

\* plain LRU: the victim is always Back
removeOldestVictim_Back(ll) == Len(ll)

removeOldestVictim(ll) ==
    IF Len(ll) = 0 THEN 0
    ELSE IF ScanPrev(ll, Len(ll) - 1) # 0 THEN ScanPrev(ll, Len(ll) - 1)
    ELSE Len(ll)

removeOldest(ll) ==
    IF removeOldestVictim(ll) = 0 THEN [ll |-> ll, ev |-> <<>>]
    ELSE removeElement(ll, removeOldestVictim(ll))

\* Add whose capacity test is off by one
CacheAdd_OffByOne(c, key, value) ==
    IF Lookup(c.ll, key) # 0
    THEN [ll |-> <<entry(key, value)>> \o RemoveAt(c.ll, Lookup(c.ll, key)), ev |-> <<>>]
    ELSE IF c.MaxEntries # 0 /\ Len(c.ll) + 1 > c.MaxEntries + 1
         THEN removeOldest(<<entry(key, value)>> \o c.ll)
         ELSE [ll |-> <<entry(key, value)>> \o c.ll, ev |-> <<>>]

\* Add that moves an existing element to the front but keeps its old value
CacheAdd_KeepsOld(c, key, value) ==
    IF Lookup(c.ll, key) # 0
    THEN [ll |-> MoveToFront(c.ll, Lookup(c.ll, key)), ev |-> <<>>]
    ELSE IF c.MaxEntries # 0 /\ Len(c.ll) + 1 > c.MaxEntries
         THEN removeOldest(<<entry(key, value)>> \o c.ll)
         ELSE [ll |-> <<entry(key, value)>> \o c.ll, ev |-> <<>>]

\* Cache.Add
CacheAdd(c, key, value) ==
    IF Lookup(c.ll, key) # 0
    THEN [ll |-> <<entry(key, value)>> \o RemoveAt(c.ll, Lookup(c.ll, key)), ev |-> <<>>]
    ELSE IF c.MaxEntries # 0 /\ Len(c.ll) + 1 > c.MaxEntries
         THEN removeOldest(<<entry(key, value)>> \o c.ll)
         ELSE [ll |-> <<entry(key, value)>> \o c.ll, ev |-> <<>>]

\* Cache.get: a hit moves the element to the front
CacheGet(c, key) ==
    IF Lookup(c.ll, key) # 0
    THEN [ll |-> MoveToFront(c.ll, Lookup(c.ll, key)), ok |-> TRUE,
          value |-> c.ll[Lookup(c.ll, key)].value]
    ELSE [ll |-> c.ll, ok |-> FALSE, value |-> item(<<>>, FALSE)]

\* Cache.remove
CacheRemove(c, key) ==
    IF Lookup(c.ll, key) # 0 THEN removeElement(c.ll, Lookup(c.ll, key))
    ELSE [ll |-> c.ll, ev |-> <<>>]

\* Cache.keys: oldest to newest
CacheKeys(ll) == [i \in 1..Len(ll) |-> ll[Len(ll) + 1 - i].key]

\* The orders in which clear's range over the map may visit the entries.
Perms(n) == {p \in [1..n -> 1..n] : \A i, j \in 1..n : p[i] = p[j] => i = j}

\* Cache.clear under one visiting order p
CacheClear(ll, p) ==
    [ll |-> <<>>,
     ev |-> [i \in 1..Len(ll) |-> [key |-> ll[p[i]].key, bytes |-> ll[p[i]].value.bytes]]]

(***************************************************************************)
(* The OS file: os.File.WriteAt / ReadAt on a byte sequence.               *)
(***************************************************************************)
\* WriteAt on an open handle: bytes past the end extend the file, a gap
\* reads as zeros.
PWrite(f, b, off) ==
    IF Len(b) = 0 THEN f
    ELSE [i \in 1..Max(Len(f), off + Len(b)) |->
            IF i > off /\ i <= off + Len(b) THEN b[i - off]
            ELSE IF i <= Len(f) THEN f[i] ELSE 0]

\* WriteAt: fails on a closed handle and writes nothing
WriteAt(f, closed, b, off) ==
    IF closed THEN [file |-> f, err |-> TRUE]
    ELSE [file |-> PWrite(f, b, off), err |-> FALSE]

\* ReadAt: fills the buffer with what the file holds from off on; fewer
\* than len(data) bytes (end of file, or a closed handle) is an error
ReadAt(f, closed, data, off) ==
    LET n == IF closed THEN 0 ELSE Min(Len(data), Max(0, Len(f) - off))
    IN [data |-> [i \in 1..Len(data) |-> IF i <= n THEN f[off + i] ELSE data[i]],
        err |-> n < Len(data)]

\* The OnEvicted closure of NewFile, applied to the invocations ev in order:
\* an unconditional WriteAt whose error is dropped.
RECURSIVE OnEvicted(_, _, _)
OnEvicted(f, closed, ev) ==
    IF ev = <<>> THEN f
    ELSE OnEvicted(WriteAt(f, closed, Head(ev).bytes, Head(ev).key).file, closed, Tail(ev))

\* NewFile
NewFile(size) == [closed |-> FALSE, queue |-> NewLRU(size), size |-> size, ops |-> 0]

NoOp == [op |-> "none"]

NoWant == [o \in Offsets |-> <<>>]

(***************************************************************************)
(* SpecCache: a Cache from NewLRU driven through its own operations; its   *)
(* OnEvicted callback records each invocation in cb.                       *)
(***************************************************************************)
InitCache ==
    /\ disk = <<>>
    /\ \E n \in 0..MaxCap : fq = NewFile(n)
    /\ cb = <<>>
    /\ last = NoOp
    /\ pre = <<>>
    /\ want = NoWant
    /\ irregular = FALSE
    /\ steps = 0
    /\ nw = 0
    /\ mgr = NoManager
    /\ NoProxy

Add(key, bytes, dirty) ==
    LET r == CacheAdd(fq.queue, key, item(bytes, dirty)) IN
    /\ fq' = [fq EXCEPT !.queue.ll = r.ll]
    /\ cb' = r.ev
    /\ pre' = fq.queue.ll
    /\ last' = [op |-> "Add", key |-> key, value |-> item(bytes, dirty)]
    /\ UNCHANGED <<disk, want, irregular, steps, nw, pvars, mvars>>

get(key) ==
    LET r == CacheGet(fq.queue, key) IN
    /\ fq' = [fq EXCEPT !.queue.ll = r.ll]
    /\ cb' = <<>>
    /\ pre' = fq.queue.ll
    /\ last' = [op |-> "get", key |-> key, ok |-> r.ok, value |-> r.value]
    /\ UNCHANGED <<disk, want, irregular, steps, nw, pvars, mvars>>

remove(key) ==
    LET r == CacheRemove(fq.queue, key) IN
    /\ fq' = [fq EXCEPT !.queue.ll = r.ll]
    /\ cb' = r.ev
    /\ pre' = fq.queue.ll
    /\ last' = [op |-> "remove", key |-> key]
    /\ UNCHANGED <<disk, want, irregular, steps, nw, pvars, mvars>>

clear ==
    \E p \in Perms(Len(fq.queue.ll)) :
        LET r == CacheClear(fq.queue.ll, p) IN
        /\ fq' = [fq EXCEPT !.queue.ll = r.ll]
        /\ cb' = r.ev
        /\ pre' = fq.queue.ll
        /\ last' = [op |-> "clear"]
        /\ UNCHANGED <<disk, want, irregular, steps, nw, pvars, mvars>>

NextCache ==
    \/ \E key \in Keys, bytes \in Pages, dirty \in BOOLEAN : Add(key, bytes, dirty)
    \/ \E key \in Keys : get(key)
    \/ \E key \in Keys : remove(key)
    \/ clear

SpecCache == InitCache /\ [][NextCache]_vars

(***************************************************************************)
(* The File operations as functions of the File f and the OS file d.       *)
(***************************************************************************)
\* The loop of Flush over keys(), oldest (Back, index Len) first: a dirty
\* entry is written and, unless the write fails, marked clean in place.
\* Flush that marks a dirty entry clean without writing it
RECURSIVE FlushFrom_NoWrite(_, _, _, _)
FlushFrom_NoWrite(ll, d, closed, i) ==
    IF i = 0 THEN [ll |-> ll, disk |-> d, err |-> FALSE]
    ELSE FlushFrom_NoWrite([ll EXCEPT ![i].value.dirty = FALSE], d, closed, i - 1)

\* Flush that writes a dirty entry and leaves it dirty
RECURSIVE FlushFrom_KeepsDirty(_, _, _, _)
FlushFrom_KeepsDirty(ll, d, closed, i) ==
    IF i = 0 THEN [ll |-> ll, disk |-> d, err |-> FALSE]
    ELSE IF ll[i].value.dirty
         THEN IF WriteAt(d, closed, ll[i].value.bytes, ll[i].key).err
              THEN [ll |-> ll, disk |-> d, err |-> TRUE]
              ELSE FlushFrom_KeepsDirty(ll, WriteAt(d, closed, ll[i].value.bytes, ll[i].key).file,
                                        closed, i - 1)
         ELSE FlushFrom_KeepsDirty(ll, d, closed, i - 1)

RECURSIVE FlushFrom(_, _, _, _)
FlushFrom(ll, d, closed, i) ==
    IF i = 0 THEN [ll |-> ll, disk |-> d, err |-> FALSE]
    ELSE IF ll[i].value.dirty
         THEN IF WriteAt(d, closed, ll[i].value.bytes, ll[i].key).err
              THEN [ll |-> ll, disk |-> d, err |-> TRUE]
              ELSE FlushFrom([ll EXCEPT ![i].value.dirty = FALSE],
                             WriteAt(d, closed, ll[i].value.bytes, ll[i].key).file,
                             closed, i - 1)
         ELSE FlushFrom(ll, d, closed, i - 1)

\* File.Flush
FileFlush(f, d) ==
    LET r == FlushFrom(f.queue.ll, d, f.closed, Len(f.queue.ll))
    IN [fq |-> [f EXCEPT !.queue.ll = r.ll], disk |-> r.disk, err |-> r.err]

\* File.Write: count, insert dirty, flush on every size-th write.
\* With size = 0 the modulo panics after the insertion.
FileWrite(f, d, data, off) ==
    LET a  == CacheAdd(f.queue, off, item(data, TRUE))
        f1 == [f EXCEPT !.ops = f.ops + 1, !.queue.ll = a.ll]
        d1 == OnEvicted(d, f.closed, a.ev)
    IN IF f.size = 0
       THEN [fq |-> f1, disk |-> d1, ev |-> a.ev, flushed |-> FALSE, panic |-> TRUE]
       ELSE IF f1.ops % f.size = 0
            THEN [fq |-> FileFlush(f1, d1).fq, disk |-> FileFlush(f1, d1).disk,
                  ev |-> a.ev, flushed |-> TRUE, panic |-> FALSE]
            ELSE [fq |-> f1, disk |-> d1, ev |-> a.ev, flushed |-> FALSE, panic |-> FALSE]

\* Read whose hit path copies only from a strictly longer entry
FileRead_StrictlyLonger(f, d, data, off) ==
    LET g == CacheGet(f.queue, off)
        r == ReadAt(d, f.closed, data, off)
        a == CacheAdd(f.queue, off, item(r.data, FALSE))
    IN IF g.ok
       THEN [fq |-> [f EXCEPT !.queue.ll = g.ll], disk |-> d, ev |-> <<>>, hit |-> TRUE,
             data |-> IF Len(g.value.bytes) > Len(data)
                      THEN SubSeq(g.value.bytes, 1, Len(data)) ELSE data,
             err |-> FALSE, ioerr |-> FALSE]
       ELSE IF ~r.err
            THEN [fq |-> f, disk |-> d, ev |-> <<>>, hit |-> FALSE,
                  data |-> r.data, err |-> FALSE, ioerr |-> FALSE]
            ELSE [fq |-> [f EXCEPT !.queue.ll = a.ll],
                  disk |-> OnEvicted(d, f.closed, a.ev), ev |-> a.ev, hit |-> FALSE,
                  data |-> r.data, err |-> FALSE, ioerr |-> TRUE]

\* File.Read into the caller's buffer data.  A hit copies the cached prefix
\* when the entry is long enough and returns nil either way.  On a miss the
\* condition on ReadAt's error is `err == nil`: a successful read returns at
\* once, a failed one caches the buffer as a clean entry and returns nil.
FileRead(f, d, data, off) ==
    LET g == CacheGet(f.queue, off)
        r == ReadAt(d, f.closed, data, off)
        a == CacheAdd(f.queue, off, item(r.data, FALSE))
    IN IF g.ok
       THEN [fq |-> [f EXCEPT !.queue.ll = g.ll], disk |-> d, ev |-> <<>>, hit |-> TRUE,
             data |-> IF Len(g.value.bytes) >= Len(data)
                      THEN SubSeq(g.value.bytes, 1, Len(data)) ELSE data,
             err |-> FALSE, ioerr |-> FALSE]
       ELSE IF ~r.err
            THEN [fq |-> f, disk |-> d, ev |-> <<>>, hit |-> FALSE,
                  data |-> r.data, err |-> FALSE, ioerr |-> FALSE]
            ELSE [fq |-> [f EXCEPT !.queue.ll = a.ll],
                  disk |-> OnEvicted(d, f.closed, a.ev), ev |-> a.ev, hit |-> FALSE,
                  data |-> r.data, err |-> FALSE, ioerr |-> TRUE]

\* File.Clear under one visiting order p of clear's map range
FileClear(f, d, p) ==
    LET fl == FileFlush(f, d)
        c  == CacheClear(fl.fq.queue.ll, p)
    IN [fq |-> [fl.fq EXCEPT !.queue.ll = c.ll, !.ops = 0],
        disk |-> OnEvicted(fl.disk, f.closed, c.ev), ev |-> c.ev]

\* Purge that clears the cache before it closes the handle
FilePurge_ClearFirst(f, d, p) ==
    LET c == CacheClear(f.queue.ll, p)
    IN [fq |-> [f EXCEPT !.closed = TRUE, !.queue.ll = c.ll, !.ops = 0],
        disk |-> OnEvicted(d, f.closed, c.ev), ev |-> c.ev]

\* File.Purge: the handle is closed before clear runs the callbacks
FilePurge(f, d, p) ==
    LET c == CacheClear(f.queue.ll, p)
    IN [fq |-> [f EXCEPT !.closed = TRUE, !.queue.ll = c.ll, !.ops = 0],
        disk |-> OnEvicted(d, TRUE, c.ev), ev |-> c.ev]

(***************************************************************************)
(* Spec: one File from NewFile(path, size) on a fresh OS file.             *)
(***************************************************************************)
Init ==
    /\ disk = <<>>
    /\ \E n \in Sizes : fq = NewFile(n)
    /\ cb = <<>>
    /\ last = NoOp
    /\ pre = <<>>
    /\ want = NoWant
    /\ irregular = FALSE
    /\ steps = 0
    /\ nw = 0
    /\ mgr = NoManager
    /\ NoProxy

Overlap(o1, n1, o2, n2) == o1 < o2 + n2 /\ o2 < o1 + n1

\* Write(data, off) breaks "one length per offset, no overlapping regions"
Clashes(w, data, off) ==
    \/ w[off] # <<>> /\ Len(w[off]) # Len(data)
    \/ \E o \in Offsets \ {off} : w[o] # <<>> /\ Overlap(o, Len(w[o]), off, Len(data))

Write(data, off) ==
    LET w == FileWrite(fq, disk, data, off) IN
    /\ fq' = w.fq
    /\ disk' = w.disk
    /\ cb' = w.ev
    /\ last' = [op |-> "Write", off |-> off, data |-> data, flushed |-> w.flushed]
    /\ want' = [want EXCEPT ![off] = data]
    /\ irregular' = (irregular \/ Clashes(want, data, off))
    /\ nw' = nw + 1
    /\ UNCHANGED pre

Read(n, off) ==
    LET r == FileRead(fq, disk, Zeros(n), off) IN
    /\ fq' = r.fq
    /\ disk' = r.disk
    /\ cb' = r.ev
    /\ last' = [op |-> "Read", off |-> off, data |-> r.data, err |-> r.err,
                hit |-> r.hit, ioerr |-> r.ioerr,
                written |-> IF last.op = "Write" /\ last.off = off /\ Len(last.data) = n
                            THEN last.data ELSE <<>>]
    /\ irregular' = TRUE
    /\ UNCHANGED <<pre, want, nw>>

\* number of dirty entries resident in the list ll
Dirty(ll) == Cardinality({i \in 1..Len(ll) : ll[i].value.dirty})

\* last.dirty: dirty entries resident when the operation began; last.first:
\* what the Flush right before this one found and returned, if there was one
Flush ==
    LET r == FileFlush(fq, disk) IN
    /\ fq' = r.fq
    /\ disk' = r.disk
    /\ cb' = <<>>
    /\ last' = [op |-> "Flush", err |-> r.err, dirty |-> Dirty(fq.queue.ll),
                first |-> IF last.op = "Flush"
                          THEN <<[err |-> last.err, dirty |-> last.dirty]>> ELSE <<>>]
    /\ UNCHANGED <<pre, want, irregular, nw>>

Clear ==
    \E p \in Perms(Len(fq.queue.ll)) :
        LET r == FileClear(fq, disk, p) IN
        /\ fq' = r.fq
        /\ disk' = r.disk
        /\ cb' = r.ev
        /\ last' = [op |-> "Clear"]
        /\ irregular' = TRUE
        /\ nw' = 0
        /\ UNCHANGED <<pre, want>>

Purge ==
    \E p \in Perms(Len(fq.queue.ll)) :
        LET r == FilePurge(fq, disk, p) IN
        /\ fq' = r.fq
        /\ disk' = r.disk
        /\ cb' = r.ev
        /\ last' = [op |-> "Purge", dirty |-> Dirty(fq.queue.ll)]
        /\ irregular' = TRUE
        /\ nw' = 0
        /\ UNCHANGED <<pre, want>>

Step(A) == steps < MaxSteps /\ steps' = steps + 1 /\ A /\ UNCHANGED <<pvars, mvars>>

Next ==
    \/ \E data \in Data, off \in Offsets : Step(Write(data, off))
    \/ \E n \in Lens, off \in Offsets : Step(Read(n, off))
    \/ Step(Flush)
    \/ Step(Clear)
    \/ Step(Purge)

Spec == Init /\ [][Next]_vars

(***************************************************************************)
(* SpecProxy: one SketchProxy over a count-min-log sketch, its File in the *)
(* storage manager, worker goroutines calling Add, Remove and Count, and   *)
(* the autosave goroutine.  Every statement that touches sp is one step;   *)
(* sp.ops++ is a load and a store.  File.Write inside SaveData is one      *)
(* step.                                                                   *)
(***************************************************************************)
\* The sketch is the number of IncreaseCount calls it has received; its
\* serialization is one byte that determines it.
Marshal(sketch) == <<sketch + 1>>

Unmarshal(data) == data[1] - 1

\* manager.SaveInfo: the metadata record of the object
SaveInfo(s) == [adds |-> s.adds, remove |-> s.remove]

\* manager.SaveData: resolve the File and Write
SaveData(f, d, data, offset) == FileWrite(f, d, data, offset)

\* File.GetSize
GetSize(d) == Len(d)

\* manager.LoadData on a File just opened
LoadData(f, d, offset, length) ==
    FileRead(f, d, Zeros(IF length = 0 THEN GetSize(d) ELSE length), offset)

\* save(force) run to completion by the only goroutine that knows the proxy
save(s, f, d, force) ==
    IF ~s.dirty THEN [sp |-> s, fq |-> f, disk |-> d, info |-> <<>>]
    ELSE IF s.ops % SaveThresholdOps = 0 \/ force
         THEN LET s1 == [s EXCEPT !.ops = s.ops + 1, !.dirty = FALSE]
                  w  == SaveData(f, d, Marshal(s1.sketch), 0)
              IN [sp |-> s1, fq |-> w.fq, disk |-> w.disk, info |-> SaveInfo(s1)]
         ELSE [sp |-> s, fq |-> f, disk |-> d, info |-> <<>>]

\* what the next LoadData(ID, 0, 0) of the object would be served from: the
\* page cached at offset 0, else the OS file
Snapshot ==
    IF Lookup(fq.queue.ll, 0) # 0 THEN fq.queue.ll[Lookup(fq.queue.ll, 0)].value.bytes
    ELSE disk

InitProxy ==
    /\ disk \in {<<>>, Marshal(0), Marshal(1)}
    /\ fq = NewFile(FileCacheSize)
    /\ cb = <<>>
    /\ last = NoOp
    /\ pre = <<>>
    /\ want = NoWant
    /\ irregular = FALSE
    /\ steps = 0
    /\ nw = 0
    /\ mgr = NoManager
    /\ NoProxy

Started == [p \in Procs |-> IF p = 0 THEN "sleep" ELSE "idle"]

\* createSketch of a new object: manager.Create, the proxy with ops 0 and
\* dirty true, save(true), go autosave()
createSketch ==
    /\ pc[0] = "none"
    /\ disk = <<>>
    /\ LET r == save([ops |-> 0, dirty |-> TRUE, sketch |-> 0, adds |-> 0, remove |-> 0],
                     NewFile(FileCacheSize), disk, TRUE)
       IN /\ sp' = r.sp
          /\ fq' = r.fq
          /\ disk' = r.disk
          /\ saved' = r.info
    /\ pc' = Started
    /\ UNCHANGED <<cb, last, pre, want, irregular, steps, nw, mgr, lock, loc, hist>>

\* loadSketch of an object saved earlier: LoadData(ID, 0, 0), Unmarshal, the
\* proxy with ops 0 and dirty false, go autosave()
loadSketch ==
    /\ pc[0] = "none"
    /\ disk # <<>>
    /\ LET r == LoadData(NewFile(FileCacheSize), disk, 0, 0)
       IN /\ sp' = [ops |-> 0, dirty |-> FALSE, sketch |-> Unmarshal(r.data),
                    adds |-> 0, remove |-> 0]
          /\ fq' = r.fq
          /\ disk' = r.disk
    /\ pc' = Started
    /\ UNCHANGED <<cb, last, pre, want, irregular, steps, nw, mgr, lock, loc, saved, hist>>

Goto(p, label) == pc' = [pc EXCEPT ![p] = label]

FileSame == UNCHANGED <<fvars, mvars>>

\* the statement after `label` in Add (ops++, Properties["adds"]++, dirty)
\* and in Remove (Properties["remove"]++, ops++, dirty)
After(op, label) ==
    IF op = "Add"
    THEN CASE label = "lock" -> "ops_load"
           [] label = "ops_store" -> "props"
           [] label = "props" -> "dirty"
    ELSE CASE label = "lock" -> "props"
           [] label = "props" -> "ops_load"
           [] label = "ops_store" -> "dirty"

\* a worker enters Add(values) or Remove(values) with n values
Call(t, op, n) ==
    /\ pc[t] = "idle"
    /\ hist.started < MaxCalls
    /\ Goto(t, "lock")
    /\ loc' = [loc EXCEPT ![t] = [NoLocals EXCEPT !.op = op, !.n = n]]
    /\ hist' = [hist EXCEPT !.started = hist.started + 1, !.wake = 0]
    /\ UNCHANGED <<sp, lock, saved>>
    /\ FileSame

\* sp.lock.Lock()
Lock(t) ==
    /\ pc[t] = "lock"
    /\ lock = 0
    /\ lock' = t
    /\ Goto(t, After(loc[t].op, "lock"))
    /\ UNCHANGED <<sp, loc, saved, hist>>
    /\ FileSame

\* sp.ops++ : the load
OpsLoad(t) ==
    /\ pc[t] = "ops_load"
    /\ loc' = [loc EXCEPT ![t].o = sp.ops]
    /\ Goto(t, "ops_store")
    /\ UNCHANGED <<sp, lock, saved, hist>>
    /\ FileSame

\* sp.ops++ : the store
OpsStore(t) ==
    /\ pc[t] = "ops_store"
    /\ sp' = [sp EXCEPT !.ops = loc[t].o + 1]
    /\ Goto(t, After(loc[t].op, "ops_store"))
    /\ UNCHANGED <<lock, loc, saved, hist>>
    /\ FileSame

\* sp.Properties["adds"]++ or sp.Properties["remove"]++
Props(t) ==
    /\ pc[t] = "props"
    /\ sp' = IF loc[t].op = "Add" THEN [sp EXCEPT !.adds = sp.adds + 1]
             ELSE [sp EXCEPT !.remove = sp.remove + 1]
    /\ Goto(t, After(loc[t].op, "props"))
    /\ UNCHANGED <<lock, loc, saved, hist>>
    /\ FileSame

\* sp.dirty = true
SetDirty(t) ==
    /\ pc[t] = "dirty"
    /\ sp' = [sp EXCEPT !.dirty = TRUE]
    /\ Goto(t, "mutate")
    /\ UNCHANGED <<lock, loc, saved, hist>>
    /\ FileSame

\* one round of the loop of AddMultiple (IncreaseCount of one value), or
\* RemoveMultiple, which this sketch type refuses without touching it.
\* When it returns, the deferred save(false) runs.
Mutate(t) ==
    /\ pc[t] = "mutate"
    /\ IF loc[t].op = "Add"
       THEN /\ sp' = [sp EXCEPT !.sketch = sp.sketch + 1]
            /\ loc' = [loc EXCEPT ![t].n = loc[t].n - 1]
            /\ Goto(t, IF loc[t].n = 1 THEN "save_dirty" ELSE "mutate")
       ELSE /\ Goto(t, "save_dirty")
            /\ UNCHANGED <<sp, loc>>
    /\ UNCHANGED <<lock, saved, hist>>
    /\ FileSame

\* where save returns to: the deferred Unlock of Add/Remove, or autosave's
\* `sp.dirty = false`
Return(p) == IF p = 0 THEN "auto_clear" ELSE "unlock"

\* save: if !sp.dirty { return }
SaveDirty(p) ==
    /\ pc[p] = "save_dirty"
    /\ Goto(p, IF sp.dirty THEN "save_cond" ELSE Return(p))
    /\ UNCHANGED <<sp, lock, loc, saved, hist>>
    /\ FileSame

\* save: if sp.ops%SaveThresholdOps == 0 || force
SaveCond(p) ==
    /\ pc[p] = "save_cond"
    /\ Goto(p, IF sp.ops % SaveThresholdOps = 0 \/ loc[p].force
               THEN "save_load" ELSE Return(p))
    /\ UNCHANGED <<sp, lock, loc, saved, hist>>
    /\ FileSame

\* save: sp.ops++ : the load
SaveLoad(p) ==
    /\ pc[p] = "save_load"
    /\ loc' = [loc EXCEPT ![p].o = sp.ops]
    /\ Goto(p, "save_store")
    /\ UNCHANGED <<sp, lock, saved, hist>>
    /\ FileSame

\* save: sp.ops++ : the store
SaveStore(p) ==
    /\ pc[p] = "save_store"
    /\ sp' = [sp EXCEPT !.ops = loc[p].o + 1]
    /\ Goto(p, "save_clear")
    /\ UNCHANGED <<lock, loc, saved, hist>>
    /\ FileSame

\* save: sp.dirty = false
SaveClear(p) ==
    /\ pc[p] = "save_clear"
    /\ sp' = [sp EXCEPT !.dirty = FALSE]
    /\ Goto(p, "save_marshal")
    /\ UNCHANGED <<lock, loc, saved, hist>>
    /\ FileSame

\* save: serialized, err := sp.sketch.Marshal()
SaveMarshal(p) ==
    /\ pc[p] = "save_marshal"
    /\ loc' = [loc EXCEPT ![p].ser = Marshal(sp.sketch)]
    /\ hist' = [hist EXCEPT !.torn = hist.torn \/ lock \notin {0, p}]
    /\ Goto(p, "save_data")
    /\ UNCHANGED <<sp, lock, saved>>
    /\ FileSame

\* save: manager.SaveData(sp.Info.ID, serialized, 0)
SaveDataStep(p) ==
    /\ pc[p] = "save_data"
    /\ LET w == SaveData(fq, disk, loc[p].ser, 0)
       IN /\ fq' = w.fq
          /\ disk' = w.disk
    /\ Goto(p, "save_info")
    /\ UNCHANGED <<cb, last, pre, want, irregular, steps, nw, mgr, sp, lock, loc, saved, hist>>

\* save: json.Marshal(sp.Info) and manager.SaveInfo
SaveInfoStep(p) ==
    /\ pc[p] = "save_info"
    /\ saved' = SaveInfo(sp)
    /\ Goto(p, Return(p))
    /\ UNCHANGED <<sp, lock, loc, hist>>
    /\ FileSame

\* the deferred sp.lock.Unlock(); the call returns
Unlock(t) ==
    /\ pc[t] = "unlock"
    /\ lock' = 0
    /\ Goto(t, "idle")
    /\ loc' = [loc EXCEPT ![t] = NoLocals]
    /\ hist' = [hist EXCEPT !.calls = hist.calls + 1]
    /\ UNCHANGED <<sp, saved>>
    /\ FileSame

\* Count: the sketch is queried without the lock
Count(t) ==
    /\ pc[t] = "idle"
    /\ hist' = [hist EXCEPT !.torn = hist.torn \/ lock # 0]
    /\ UNCHANGED <<sp, lock, pc, loc, saved>>
    /\ FileSame

Quiet == \A t \in Workers : pc[t] = "idle"

\* autosave wakes from time.Sleep and tests sp.dirty; hist.wake follows the
\* first wake-up after the last call returned: 1 while it runs, 2 when done
Wake ==
    /\ pc[0] = "sleep"
    /\ IF sp.dirty
       THEN /\ Goto(0, "save_dirty")
            /\ loc' = [loc EXCEPT ![0] = [NoLocals EXCEPT !.op = "autosave", !.force = TRUE]]
            /\ hist' = [hist EXCEPT !.forced = TRUE,
                                    !.wake = IF Quiet /\ hist.wake = 0 THEN 1 ELSE @]
       ELSE /\ hist' = [hist EXCEPT !.wake = IF Quiet /\ hist.wake = 0 THEN 2 ELSE @]
            /\ UNCHANGED <<pc, loc>>
    /\ UNCHANGED <<sp, lock, saved>>
    /\ FileSame

\* autosave: sp.dirty = false after save(true), then back to sleep
AutoClear ==
    /\ pc[0] = "auto_clear"
    /\ sp' = [sp EXCEPT !.dirty = FALSE]
    /\ Goto(0, "sleep")
    /\ loc' = [loc EXCEPT ![0] = NoLocals]
    /\ hist' = [hist EXCEPT !.wake = IF hist.wake = 1 THEN 2 ELSE @]
    /\ UNCHANGED <<lock, saved>>
    /\ FileSame

NextProxy ==
    \/ createSketch
    \/ loadSketch
    \/ \E t \in Workers, op \in {"Add", "Remove"}, n \in Counts : Call(t, op, n)
    \/ \E t \in Workers : Lock(t)
    \/ \E t \in Workers : OpsLoad(t)
    \/ \E t \in Workers : OpsStore(t)
    \/ \E t \in Workers : Props(t)
    \/ \E t \in Workers : SetDirty(t)
    \/ \E t \in Workers : Mutate(t)
    \/ \E p \in Procs : SaveDirty(p)
    \/ \E p \in Procs : SaveCond(p)
    \/ \E p \in Procs : SaveLoad(p)
    \/ \E p \in Procs : SaveStore(p)
    \/ \E p \in Procs : SaveClear(p)
    \/ \E p \in Procs : SaveMarshal(p)
    \/ \E p \in Procs : SaveDataStep(p)
    \/ \E p \in Procs : SaveInfoStep(p)
    \/ \E t \in Workers : Unlock(t)
    \/ \E t \in Workers : Count(t)
    \/ Wake
    \/ AutoClear

SpecProxy == InitProxy /\ [][NextProxy]_vars

(***************************************************************************)
(* SpecManager: the storage manager with one object ID.  fq is the File    *)
(* its registry m.cache holds for ID (when mgr.held), disk the bytes of    *)
(* the backing file dataPath/ID.  A File the registry no longer holds is   *)
(* unreachable: nothing else keeps a reference to it.  `open` says whether *)
(* os.OpenFile succeeds when NewFile is reached.                           *)
(***************************************************************************)
\* the nil *File
NilFile == [closed |-> TRUE, queue |-> NewLRU(0), size |-> 0, ops |-> 0]

\* the manager after a successful NewFile for ID and m.cache.Add(ID, sf)
Opened(m) ==
    [m EXCEPT !.held = TRUE, !.exists = TRUE, !.inst = m.inst + 1,
              !.first = IF m.first = 0 THEN m.inst + 1 ELSE m.first]

\* getFileFromCache
getFileFromCache(m, f, open) ==
    IF m.held THEN [fq |-> f, nil |-> FALSE, err |-> FALSE, mgr |-> m]
    ELSE IF open
         THEN [fq |-> NewFile(FileCacheSize), nil |-> FALSE, err |-> FALSE, mgr |-> Opened(m)]
         ELSE [fq |-> NilFile, nil |-> TRUE, err |-> TRUE, mgr |-> m]

\* ManagerStruct.Create: a new File replaces whatever the registry held
ManagerCreate(m, f, d, open) ==
    IF open
    THEN [fq |-> NewFile(FileCacheSize), disk |-> d, mgr |-> Opened(m),
          err |-> FALSE, panic |-> FALSE]
    ELSE [fq |-> f, disk |-> d, mgr |-> m, err |-> TRUE, panic |-> FALSE]

\* ManagerStruct.SaveData: f.Write is called before err is looked at; on a
\* nil File its fq.ops++ is a nil dereference
ManagerSaveData(m, f, d, data, offset, open) ==
    LET g == getFileFromCache(m, f, open)
        w == FileWrite(g.fq, d, data, offset)
    IN IF g.nil
       THEN [fq |-> f, disk |-> d, mgr |-> m, err |-> TRUE, panic |-> TRUE]
       ELSE [fq |-> w.fq, disk |-> w.disk, mgr |-> g.mgr, err |-> FALSE, panic |-> FALSE]

\* ManagerStruct.DeleteData under one visiting order p of clear's map range:
\* Purge of the registered File, which stays registered, then os.Remove
ManagerDeleteData(m, f, d, p) ==
    [fq |-> IF m.held THEN FilePurge(f, d, p).fq ELSE f,
     disk |-> <<>>,
     mgr |-> [m EXCEPT !.exists = FALSE, !.first = 0],
     err |-> ~m.exists, panic |-> FALSE]

\* ManagerStruct.FlushData: the error of getFileFromCache is dropped
ManagerFlushData(m, f, d, open) ==
    LET g  == getFileFromCache(m, f, open)
        fl == FileFlush(g.fq, d)
    IN IF g.nil
       THEN [fq |-> f, disk |-> d, mgr |-> m, err |-> FALSE, panic |-> TRUE]
       ELSE [fq |-> fl.fq, disk |-> fl.disk, mgr |-> g.mgr, err |-> FALSE, panic |-> FALSE]

\* ManagerStruct.LoadData: with length 0 the length is GetSize(), whose
\* Stat() fails on a closed handle and leaves a nil FileInfo to call Size on
ManagerLoadData(m, f, d, offset, length, open) ==
    LET g == getFileFromCache(m, f, open)
        n == IF length = 0 THEN GetSize(d) ELSE length
        r == FileRead(g.fq, d, Zeros(n), offset)
    IN IF g.nil
       THEN [fq |-> f, disk |-> d, mgr |-> m, err |-> TRUE, panic |-> FALSE, data |-> <<>>]
       ELSE IF length = 0 /\ g.fq.closed
            THEN [fq |-> g.fq, disk |-> d, mgr |-> g.mgr, err |-> FALSE, panic |-> TRUE,
                  data |-> <<>>]
            ELSE [fq |-> r.fq, disk |-> r.disk, mgr |-> g.mgr, err |-> r.err,
                  panic |-> FALSE, data |-> r.data]

InitManager ==
    /\ disk = <<>>
    /\ fq = NilFile
    /\ cb = <<>>
    /\ last = NoOp
    /\ pre = <<>>
    /\ want = NoWant
    /\ irregular = FALSE
    /\ steps = 0
    /\ nw = 0
    /\ mgr = NoManager
    /\ NoProxy

\* the File and the manager after the call that returned r; last.used is the
\* File instance the call worked on (0: none), last.arg the call's arguments
\* and what it returned
Done(op, r, arg) ==
    /\ fq' = r.fq
    /\ disk' = r.disk
    /\ mgr' = r.mgr
    /\ last' = [op |-> op, err |-> r.err, panic |-> r.panic,
                used |-> IF r.err \/ r.panic THEN 0 ELSE r.mgr.inst,
                first |-> mgr.first, held |-> mgr.held, arg |-> arg]
    /\ UNCHANGED <<cb, pre, want, irregular, nw>>

\* the bytes a SaveData at offset 0 handed over, when nothing but FlushData
\* was called since (<<>>: no such bytes)
Pending ==
    IF last.op \in {"SaveData", "FlushData"} /\ ~last.panic THEN last.arg.pending ELSE <<>>

Create(open) ==
    /\ Done("Create", ManagerCreate(mgr, fq, disk, open), <<>>)
    /\ UNCHANGED pvars

SaveDataCall(data, offset, open) ==
    /\ Done("SaveData", ManagerSaveData(mgr, fq, disk, data, offset, open),
            [data |-> data, offset |-> offset,
             pending |-> IF offset = 0 THEN data ELSE <<>>])
    /\ UNCHANGED pvars

DeleteData ==
    /\ \E p \in Perms(Len(fq.queue.ll)) :
          Done("DeleteData", ManagerDeleteData(mgr, fq, disk, p), <<>>)
    /\ UNCHANGED pvars

FlushData(open) ==
    /\ Done("FlushData", ManagerFlushData(mgr, fq, disk, open), [pending |-> Pending])
    /\ UNCHANGED pvars

LoadDataCall(offset, length, open) ==
    /\ LET r == ManagerLoadData(mgr, fq, disk, offset, length, open)
       IN Done("LoadData", r,
               [offset |-> offset, length |-> length, data |-> r.data, saved |-> Pending])
    /\ UNCHANGED pvars

\* the registry's own bound drops the entry of ID (when other objects are
\* resolved); the File is neither flushed nor closed
RegistryEvict ==
    /\ mgr.held
    /\ mgr' = [mgr EXCEPT !.held = FALSE, !.first = 0]
    /\ fq' = NilFile
    /\ last' = [op |-> "Evict", err |-> FALSE, panic |-> FALSE]
    /\ UNCHANGED <<disk, cb, pre, want, irregular, nw, pvars>>

\* createSketch through the manager: Create, then save(true) of the new
\* proxy, whose SaveData finds the File that Create registered
CreateSketchCall(open) ==
    /\ pc[0] = "none"
    /\ LET c == ManagerCreate(mgr, fq, disk, open)
           r == save([ops |-> 0, dirty |-> TRUE, sketch |-> 0, adds |-> 0, remove |-> 0],
                     c.fq, c.disk, TRUE)
       IN IF c.err
          THEN /\ last' = [op |-> "createSketch", err |-> TRUE, panic |-> FALSE]
               /\ UNCHANGED <<fq, disk, mgr, pvars>>
          ELSE /\ fq' = r.fq
               /\ disk' = r.disk
               /\ mgr' = c.mgr
               /\ sp' = r.sp
               /\ saved' = r.info
               /\ pc' = Started
               /\ last' = [op |-> "createSketch", err |-> FALSE, panic |-> FALSE]
               /\ UNCHANGED <<lock, loc, hist>>
    /\ UNCHANGED <<cb, pre, want, irregular, nw>>

\* what the sketch's AddMultiple / RemoveMultiple returns
Outcome(op) == IF op = "Add" THEN "true" ELSE "unsupported"

\* Add(values) or Remove(values) with n values, run by one goroutine from
\* Lock to the deferred Unlock: last.ret is what the call returned ("none"
\* when it did not return), last.outcome what the sketch returned
MutateCall(op, n, open) ==
    /\ pc[0] = "sleep"
    /\ LET s1 == [sp EXCEPT !.ops = sp.ops + 1, !.dirty = TRUE,
                            !.adds = IF op = "Add" THEN sp.adds + 1 ELSE sp.adds,
                            !.remove = IF op = "Add" THEN sp.remove ELSE sp.remove + 1,
                            !.sketch = IF op = "Add" THEN sp.sketch + n ELSE sp.sketch]
           s2 == [s1 EXCEPT !.ops = s1.ops + 1, !.dirty = FALSE]
           w  == ManagerSaveData(mgr, fq, disk, Marshal(s2.sketch), 0, open)
       IN IF s1.ops % SaveThresholdOps = 0
          THEN /\ sp' = s2
               /\ fq' = w.fq
               /\ disk' = w.disk
               /\ mgr' = w.mgr
               /\ saved' = IF w.panic THEN saved ELSE SaveInfo(s2)
               /\ last' = [op |-> op, err |-> FALSE, panic |-> w.panic, saving |-> TRUE,
                           ret |-> IF w.panic THEN "none" ELSE Outcome(op),
                           outcome |-> Outcome(op)]
          ELSE /\ sp' = s1
               /\ last' = [op |-> op, err |-> FALSE, panic |-> FALSE, saving |-> FALSE,
                           ret |-> Outcome(op), outcome |-> Outcome(op)]
               /\ UNCHANGED <<fq, disk, mgr, saved>>
    /\ UNCHANGED <<cb, pre, want, irregular, nw, lock, pc, loc, hist>>

\* a nil dereference ended the process
Crashed == last.op # "none" /\ last.panic

MStep(A) == steps < MaxSteps /\ ~Crashed /\ steps' = steps + 1 /\ A

NextManager ==
    \/ \E open \in BOOLEAN : MStep(Create(open))
    \/ \E data \in Data, offset \in Offsets, open \in BOOLEAN :
          MStep(SaveDataCall(data, offset, open))
    \/ MStep(DeleteData)
    \/ \E open \in BOOLEAN : MStep(FlushData(open))
    \/ \E offset \in Offsets, length \in {0} \cup Lens, open \in BOOLEAN :
          MStep(LoadDataCall(offset, length, open))
    \/ MStep(RegistryEvict)
    \/ \E open \in BOOLEAN : MStep(CreateSketchCall(open))
    \/ \E op \in {"Add", "Remove"}, n \in Counts, open \in BOOLEAN :
          MStep(MutateCall(op, n, open))

SpecManager == InitManager /\ [][NextManager]_vars

(***************************************************************************)
(* Claims about the Cache (SpecCache).                                     *)
(***************************************************************************)
KeysOf(ll) == {ll[i].key : i \in 1..Len(ll)}

\* In SpecCache, after an Add of a new key: the list as it was between the
\* PushFront and the capacity check.
Pushed == <<entry(last.key, last.value)>> \o pre

AddEvicted == last.op = "Add" /\ cb # <<>>

\* C2: after every Add the number of resident entries is at most
\* MaxEntries when MaxEntries > 0, and with MaxEntries = 0 an Add evicts
\* nothing: no callback, and every key resident before is still resident.
C2_CacheBound ==
    /\ fq.queue.MaxEntries > 0 => Len(fq.queue.ll) <= fq.queue.MaxEntries
    /\ (fq.queue.MaxEntries = 0 /\ last.op = "Add") =>
          /\ cb = <<>>
          /\ KeysOf(fq.queue.ll) = KeysOf(pre) \cup {last.key}

C2_Witness ==
    /\ AddEvicted
    /\ fq.queue.MaxEntries = MaxCap
    /\ Len(fq.queue.ll) = MaxCap

\* The keys that were resident at some moment of the last operation, and the
\* bytes each held when the operation had inserted what it inserts.
HeldKeys == KeysOf(pre) \cup (IF last.op = "Add" THEN {last.key} ELSE {})

HeldBytes(k) ==
    IF last.op = "Add" /\ last.key = k THEN last.value.bytes
    ELSE pre[Lookup(pre, k)].value.bytes

Calls(k) == {i \in 1..Len(cb) : cb[i].key = k}

\* C3: an entry that leaves the cache (Add's eviction, remove, clear) gets
\* exactly one callback, with its key and the bytes it held; an entry that
\* stays gets none.
C3_WriteBackComplete ==
    \A k \in Keys :
        IF k \in HeldKeys /\ k \notin KeysOf(fq.queue.ll)
        THEN /\ Cardinality(Calls(k)) = 1
             /\ \A i \in Calls(k) : cb[i].bytes = HeldBytes(k)
        ELSE Calls(k) = {}

C3_Witness == last.op = "clear" /\ Len(pre) >= 2 /\ Len(cb) = Len(pre)

\* C9: when Add evicts, the victim is clean whenever some entry other than
\* the new (most recent) one is clean, and a dirty victim means that every
\* entry is dirty.
C9_DirtyAvoidance ==
    AddEvicted =>
        LET v == Pushed[Lookup(Pushed, cb[1].key)].value IN
        /\ (\E i \in 2..Len(Pushed) : ~Pushed[i].value.dirty) => ~v.dirty
        /\ v.dirty => \A i \in 1..Len(Pushed) : Pushed[i].value.dirty

C9_Witness ==
    /\ AddEvicted
    /\ last.value.dirty
    /\ \E i, j \in 2..Len(Pushed) : Pushed[i].value.dirty /\ ~Pushed[j].value.dirty
    /\ ~Pushed[Lookup(Pushed, cb[1].key)].value.dirty

\* The least recently used clean entry of ll (the scan from Back, Back
\* included), or Back when no entry is clean.
RECURSIVE ScanFromBack(_, _)
ScanFromBack(ll, i) ==
    IF i = 0 THEN Len(ll)
    ELSE IF ~ll[i].value.dirty THEN i
    ELSE ScanFromBack(ll, i - 1)

\* C10: when Add evicts, the victim is the least recently used clean entry,
\* or the least recently used entry when none is clean.
C10_LruCleanVictim ==
    AddEvicted => cb[1].key = Pushed[ScanFromBack(Pushed, Len(Pushed))].key

(***************************************************************************)
(* Claims about the File (Spec).                                           *)
(***************************************************************************)
\* the n bytes of the OS file at offset off (<<>> when the file is shorter)
DiskAt(off, n) == IF Len(disk) >= off + n THEN SubSeq(disk, off + 1, off + n) ELSE <<>>

\* the last operation ended with a Flush of the File
JustFlushed ==
    \/ last.op = "Flush" /\ ~last.err
    \/ last.op = "Write" /\ last.flushed

\* C1: on a File driven by Writes (and Flushes) alone that kept one length
\* per offset and did not overlap, after a Flush the OS file holds at every
\* written offset the bytes of the last Write there, whatever was evicted in
\* between.
C1_LastWriteOnDisk ==
    (JustFlushed /\ ~irregular) =>
        \A off \in Offsets :
            want[off] # <<>> => DiskAt(off, Len(want[off])) = want[off]

\* the scenario of TestFileManager: capacity 1, three writes, the third
\* re-writing the first offset after the second evicted it
C1_Witness ==
    /\ JustFlushed /\ ~irregular
    /\ fq.size = 1 /\ fq.ops = 3
    /\ last.op = "Write" /\ last.off = 0 /\ cb # <<>>
    /\ want[0] # <<>> /\ want[2] # <<>>
    /\ disk = <<want[0][1], 0, want[2][1]>>
    /\ want[0] # want[2]

\* C4: a Read of len(B) bytes at offset O right after Write(B, O) is a cache
\* hit that fills the buffer with B and returns no error.
C4_ReadAfterWrite ==
    (last.op = "Read" /\ last.written # <<>>) =>
        /\ last.data = last.written
        /\ ~last.err
        /\ last.hit

C4_Witness ==
    /\ last.op = "Read" /\ last.written # <<>>
    /\ fq.size = 1
    /\ Len(last.written) = 2
    /\ fq.queue.ll[1].value.dirty = FALSE

(***************************************************************************)
(* Claims about the SketchProxy (SpecProxy).                               *)
(***************************************************************************)
\* C5: once a call has returned and no other call has started, when the
\* next wake-up of autosave is over the bytes of the OS data file are the
\* serialization of the in-memory sketch.
C5_AutosaveBound ==
    (hist.calls >= 1 /\ hist.wake = 2) => disk = Marshal(sp.sketch)

\* C6: when exactly SaveThresholdOps calls have returned and autosave has
\* forced no save, the last of them has saved: the proxy is clean and the
\* snapshot handed to the manager holds all the mutations.
C6_ThresholdSave ==
    (hist.calls = SaveThresholdOps /\ hist.started = hist.calls /\ ~hist.forced) =>
        /\ ~sp.dirty
        /\ Snapshot = Marshal(sp.sketch)

\* C7: whenever no call is in progress, autosave sleeps and the proxy is
\* clean, the last snapshot handed to the manager holds every completed
\* mutation.
C7_NoLostFlush ==
    (Quiet /\ pc[0] = "sleep" /\ ~sp.dirty) => Snapshot = Marshal(sp.sketch)

\* C8: no goroutine serializes or queries the sketch while another one is
\* between Lock and Unlock of Add/Remove.
C8_MutualExclusion == ~hist.torn

(***************************************************************************)
(* Claims about File.Read, Flush and Purge (Spec) and Cache.Add            *)
(* (SpecCache).                                                            *)
(***************************************************************************)
\* the n bytes the OS file d holds from offset off on, <<>> if it is shorter
Region(d, off, n) == IF Len(d) >= off + n THEN SubSeq(d, off + 1, off + n) ELSE <<>>

\* C11: a Read that misses the cache and whose positional read succeeds
\* returns the file's bytes and leaves the buffer resident as a clean entry
\* at that offset; when the positional read fails, Read returns the error
\* and nothing is resident at that offset.
C11_ReadMiss ==
    (last.op = "Read" /\ ~last.hit) =>
        LET i == Lookup(fq.queue.ll, last.off) IN
        IF last.ioerr
        THEN last.err /\ i = 0
        ELSE /\ ~last.err
             /\ last.data = Region(disk, last.off, Len(last.data))
             /\ i # 0
             /\ fq.queue.ll[i].value = item(last.data, FALSE)

\* a Flush step of the File
FlushStep == last'.op = "Flush" /\ steps' = steps + 1

\* the keys, bytes and order of the list ll
Resident(ll) == [i \in 1..Len(ll) |-> [key |-> ll[i].key, bytes |-> ll[i].value.bytes]]

\* C14 as stated: after a Flush that returns no error no resident entry is
\* dirty, the OS file holds at the offset of every entry that was dirty that
\* entry's bytes, and the resident offsets, bytes and order are unchanged.
C14_FlushWritesAll ==
    [][(FlushStep /\ ~last'.err) =>
        /\ Dirty(fq'.queue.ll) = 0
        /\ Resident(fq'.queue.ll) = Resident(fq.queue.ll)
        /\ \A i \in 1..Len(fq.queue.ll) :
              fq.queue.ll[i].value.dirty =>
                  Region(disk', fq.queue.ll[i].key, Len(fq.queue.ll[i].value.bytes))
                      = fq.queue.ll[i].value.bytes]_vars

\* byte j of entry i of ll lies under a dirty entry used more recently
Covered(ll, i, j) ==
    \E k \in 1..(i - 1) :
        /\ ll[k].value.dirty
        /\ ll[k].key < ll[i].key + j
        /\ ll[i].key + j <= ll[k].key + Len(ll[k].value.bytes)

\* C14 amended: after a Flush that returns no error no resident entry is
\* dirty, the resident offsets, bytes and order are unchanged, and the OS
\* file holds every byte of every entry that was dirty, except the bytes
\* that lie under a more recently used dirty entry (written after it).
C14_FlushWritesNewest ==
    [][(FlushStep /\ ~last'.err) =>
        /\ Dirty(fq'.queue.ll) = 0
        /\ Resident(fq'.queue.ll) = Resident(fq.queue.ll)
        /\ \A i \in 1..Len(fq.queue.ll) :
              fq.queue.ll[i].value.dirty =>
                  \A j \in 1..Len(fq.queue.ll[i].value.bytes) :
                      ~Covered(fq.queue.ll, i, j) =>
                          /\ Len(disk') >= fq.queue.ll[i].key + j
                          /\ disk'[fq.queue.ll[i].key + j] = fq.queue.ll[i].value.bytes[j]]_vars

\* a Flush found two dirty entries and wrote them
C14_Witness == last.op = "Flush" /\ ~last.err /\ last.dirty >= 2 /\ Len(disk) >= 2

C16_CleanMatchesDisk ==
    \A i \in 1..Len(fq.queue.ll) :
        ~fq.queue.ll[i].value.dirty =>
            Region(disk, fq.queue.ll[i].key, Len(fq.queue.ll[i].value.bytes))
                = fq.queue.ll[i].value.bytes

\* C17: Purge leaves the cache empty and the write counter 0, and the OS
\* file exactly as it was: no callback of clear() writes to it.
C17_PurgeDiscards ==
    [][(last'.op = "Purge" /\ steps' = steps + 1) =>
        /\ fq'.queue.ll = <<>>
        /\ fq'.ops = 0
        /\ disk' = disk]_vars

\* a Purge of a cache that held a dirty and another entry over a file that
\* was written before
C17_Witness == last.op = "Purge" /\ last.dirty >= 1 /\ Len(cb) >= 2 /\ disk # <<>>

\* C19: after Cache.Add(key, value) the entry is resident with the given
\* value and key is the last element of keys().
C19_AddIsNewest ==
    last.op = "Add" =>
        /\ Lookup(fq.queue.ll, last.key) # 0
        /\ fq.queue.ll[Lookup(fq.queue.ll, last.key)].value = last.value
        /\ CacheKeys(fq.queue.ll)[Len(fq.queue.ll)] = last.key

\* the entry the last Write inserted is resident and dirty
OwnDirty ==
    LET i == Lookup(fq.queue.ll, last.off) IN
    i # 0 /\ fq.queue.ll[i].value = item(last.data, TRUE)

\* C20: the n-th Write since the File was opened, cleared or purged
\* runs a Flush exactly when n is a multiple of the capacity; after such a
\* Write no resident entry is dirty, after any other Write its own entry is
\* resident and dirty.
C20_EveryCthWrite ==
    last.op = "Write" =>
        /\ last.flushed <=> (nw % fq.size = 0)
        /\ (nw % fq.size = 0) => Dirty(fq.queue.ll) = 0
        /\ (nw % fq.size # 0) => OwnDirty

(***************************************************************************)
(* Claims about the storage manager (SpecManager).                         *)
(***************************************************************************)
\* C12: after DeleteData(ID) on an ID whose File the registry held, the File
\* is purged and the registry holds no entry for ID.
C12_DeleteUnregisters ==
    (last.op = "DeleteData" /\ last.held) =>
        /\ fq.queue.ll = <<>>
        /\ ~mgr.held

\* C13: every Add/Remove returns what the sketch's mutation returned,
\* whatever happens in the save it triggers, and does not crash its caller.
C13_SaveFailureIsLogged ==
    last.op \in {"Add", "Remove"} =>
        /\ ~last.panic
        /\ last.ret = last.outcome

\* C18: from the first access to ID until DeleteData(ID), every Create,
\* SaveData, LoadData and FlushData works on the File instance of that first
\* access.
C18_OneInstance ==
    (/\ last.op \in {"Create", "SaveData", "LoadData", "FlushData"}
     /\ last.first # 0
     /\ last.used # 0) => last.used = last.first

\* C21: a LoadData(ID, 0, 0) that follows a SaveData(ID, B, 0) with only
\* FlushData calls in between returns exactly B.
C21_SaveLoadRoundTrip ==
    (/\ last.op = "LoadData"
     /\ last.arg.offset = 0
     /\ last.arg.length = 0
     /\ last.arg.saved # <<>>) =>
        /\ ~last.err
        /\ ~last.panic
        /\ last.arg.data = last.arg.saved

\* a Read step of the File
ReadStep == last'.op = "Read" /\ steps' = steps + 1

\* C22: a Read that returns no error has filled the whole buffer with the
\* bytes of the entry resident at that offset, else with the bytes of the OS
\* file there.
C22_ReadSuccessIsData ==
    [][(ReadStep /\ ~last'.err) =>
        LET i == Lookup(fq.queue.ll, last'.off)
            n == Len(last'.data)
        IN IF i # 0
           THEN /\ Len(fq.queue.ll[i].value.bytes) >= n
                /\ last'.data = SubSeq(fq.queue.ll[i].value.bytes, 1, n)
           ELSE /\ Len(disk) >= last'.off + n
                /\ last'.data = Region(disk, last'.off, n)]_vars

=============================================================================
